---- MODULE Spec2Model ----
(***************************************************************************)
(* Model of gordo_components/pipeline_translator/pipeline_from_definition  *)
(* (pipeline_from_definition, _build_branch, _build_step).                 *)
(*                                                                         *)
(* Python values are tagged records:                                       *)
(*   str, num, null, list, map (a dict, as its ordered entries), tuple,    *)
(*   obj (an instance built by a registry constructor, recording the       *)
(*   positional and named arguments it was given).                         *)
(* The translation is a recursive function; it returns its outcome, the    *)
(* definition as the call leaves it (the code assigns into the caller's    *)
(* dicts) and the ordered log of what it did (enter a node, locate a name, *)
(* call a lookup result, raise).                                           *)
(***************************************************************************)
EXTENDS Integers, Sequences, FiniteSets, TLC

VARIABLES definition, before, result, prevResult, log, op, prevOp, ctor, calls

vars == <<definition, before, result, prevResult, log, op, prevOp, ctor, calls>>

----------------------------------------------------------------------------
(* Bounds *)

\* longest Definition Sequence the caller writes
MaxLen == 2
\* number of calls made on one definition object
MaxCalls == 2

----------------------------------------------------------------------------
(* Python values *)

Str(s) == [kind |-> "str", s |-> s]
Num(n) == [kind |-> "num", n |-> n]
Null == [kind |-> "null"]
List(items) == [kind |-> "list", items |-> items]
Map(entries) == [kind |-> "map", entries |-> entries]
Entry(k, v) == [key |-> k, val |-> v]
Tuple(label, obj) == [kind |-> "tuple", label |-> label, obj |-> obj]
Obj(cls, pos, kw) == [kind |-> "obj", cls |-> cls, pos |-> pos, kw |-> kw]

\* the empty dict
EmptyMap == Map(<<>>)

\* outcome of a call: a returned value or a raised exception
Ok(v) == [kind |-> "ok", val |-> v, exc |-> "", at |-> <<>>]
Raised(exc, path) == [kind |-> "err", val |-> Null, exc |-> exc, at |-> path]

\* log entries: "enter" carries the node _build_step was given, "call" the
\* class called with the arguments it was given
Ev(ev, path, what, node) == [ev |-> ev, path |-> path, what |-> what, node |-> node]

----------------------------------------------------------------------------
(* The registry: pydoc.locate and the classes it finds *)

Pipeline == "Pipeline"
FeatureUnion == "FeatureUnion"
\* typing.Union[Pipeline, None], the default value of constructor_class
UnionAlias == "Union"
\* what pydoc.locate returns for a name it cannot find
NoneClass == "None"

LeafClasses == {"TypeA", "TypeB"}
Registry == {Pipeline, FeatureUnion} \cup LeafClasses

locate(name) == IF name \in Registry THEN name ELSE NoneClass

IsContainer(StepClass) == StepClass \in {FeatureUnion, Pipeline}

\* isinstance(step, dict), isinstance(step, str), isinstance(params, (tuple, list))
IsDict(v) == v.kind = "map"
IsStr(v) == v.kind = "str"
IsTupleOrList(v) == v.kind \in {"tuple", "list"}

\* f'step_{i}'
StepLabel(i) ==
    CASE i = 0 -> "step_0"
      [] i = 1 -> "step_1"
      [] i = 2 -> "step_2"
      [] i = 3 -> "step_3"
      [] i = 4 -> "step_4"
      [] OTHER -> "step_5"

\* a test for more than one key only
KeyCountBad_Mutant(step) == Len(step.entries) > 1

\* len(step.keys()) != 1
KeyCountBad(step) == Len(step.entries) # 1

\* position of key k in a dict's entries, 0 when absent
KeyIndex(m, k) ==
    IF \E i \in 1..Len(m.entries) : m.entries[i].key = k
    THEN CHOOSE i \in 1..Len(m.entries) : m.entries[i].key = k
    ELSE 0

\* a in b for two strings: among the strings of this model none is a proper
\* substring of another
Substring(a, b) == a = b

\* key in params: "yes", "no", or "TypeError" when params is not a container
Contains(params, key) ==
    CASE params.kind = "map" ->
            IF KeyIndex(params, key) # 0 THEN "yes" ELSE "no"
      [] params.kind = "list" ->
            IF \E i \in 1..Len(params.items) : params.items[i] = Str(key)
            THEN "yes" ELSE "no"
      [] params.kind = "tuple" ->
            IF Str(key) \in {Str(params.label), params.obj} THEN "yes" ELSE "no"
      [] params.kind = "str" ->
            IF Substring(key, params.s) THEN "yes" ELSE "no"
      [] OTHER -> "TypeError"

\* the characters of the strings a caller may write where a sequence belongs
Chars(s) ==
    CASE s = "" -> <<>>
      [] s = "ab" -> <<"a", "b">>
      [] OTHER -> <<s>>

\* enumerate(definition): the elements iteration yields, in order; a dict
\* yields its keys, a string its characters; other values are not iterable
Iterable(v) == v.kind \in {"list", "map", "str", "tuple"}
Elements(v) ==
    CASE v.kind = "list" -> v.items
      [] v.kind = "map" -> [i \in 1..Len(v.entries) |-> Str(v.entries[i].key)]
      [] v.kind = "str" -> [i \in 1..Len(Chars(v.s)) |-> Str(Chars(v.s)[i])]
      [] v.kind = "tuple" -> <<Str(v.label), v.obj>>
      [] OTHER -> <<>>

\* the elements written back after the elements of an iterated value were
\* visited: only a list holds the visited objects themselves
WithElements(v, items) == IF v.kind = "list" THEN List(items) ELSE v

----------------------------------------------------------------------------
(* The translation *)

\* what one call leaves behind: its outcome, the value it was given as the
\* call leaves it, and what it did
R(res, node, lg) == [res |-> res, node |-> node, log |-> lg]

\* a raise statement, or an operation of the interpreter that raises
Raise(exc, path, node, lg) ==
    R(Raised(exc, path), node, lg \o <<Ev("raise", path, exc, Null)>>)

\* a comprehension that went on after a failed element
Aborts_Mutant(res) == FALSE

\* a list comprehension stops at the first element whose evaluation raises
Aborts(res) == res.kind = "err"

\* StepClass(*pos, **kw): binding ** to a non-dict raises before the call;
\* calling None or typing.Union raises; a registry class records its arguments
\* (ValueError is what the module raises itself, TypeError what a call raises)
Call(StepClass, pos, kw, path, node, lg) ==
    IF ~IsDict(kw) THEN Raise("TypeError", path, node, lg)
    ELSE LET lg1 == lg \o <<Ev("call", path, StepClass, Obj(StepClass, pos, kw))>>
         IN IF StepClass \in {NoneClass, UnionAlias}
            THEN Raise("TypeError", path, node, lg1)
            ELSE R(Ok(Obj(StepClass, pos, kw)), node, lg1)

\* params[key] = value
SetItem(params, key, value) ==
    Map([params.entries EXCEPT ![KeyIndex(params, key)] = Entry(key, value)])

\* a one-key step with its parameters replaced (params is the dict the
\* caller's step holds, so an assignment into it shows in the step)
WithParams(step, params) == Map(<<Entry(step.entries[1].key, params)>>)

RECURSIVE _build_step(_, _)
RECURSIVE BuildItems(_, _, _)

\* the comprehension's list once the elements after position i are built:
\* the pair for element i, then theirs
JoinItems(r, rest, i) ==
    R(IF rest.res.kind = "err" THEN rest.res
      ELSE Ok(<<Tuple(StepLabel(i - 1), r.res.val)>> \o rest.res.val),
      rest.node, r.log \o rest.log)

\* the comprehension after _build_step returned or raised (r) for element i
AfterItem(r, items, i, path) ==
    IF Aborts(r.res) THEN R(r.res, [items EXCEPT ![i] = r.node], r.log)
    ELSE JoinItems(r, BuildItems([items EXCEPT ![i] = r.node], i + 1, path), i)

\* [(f'step_{i}', _build_step(step)) for i, step in enumerate(definition)]
\* from the element at position i on (1-based here, labels are 0-based)
BuildItems(items, i, path) ==
    IF i > Len(items) THEN R(Ok(<<>>), items, <<>>)
    ELSE AfterItem(_build_step(items[i], path \o <<i - 1>>), items, i, path)

\* constructor_class is None
CtorAbsent(constructor_class) == constructor_class = NoneClass

\* return steps if constructor_class is None else constructor_class(steps),
\* b being the outcome of the comprehension
ReturnBranch(b, defn, constructor_class, path) ==
    IF b.res.kind = "err" THEN R(b.res, WithElements(defn, b.node), b.log)
    ELSE IF CtorAbsent(constructor_class)
         THEN R(Ok(List(b.res.val)), WithElements(defn, b.node), b.log)
         ELSE Call(constructor_class, <<List(b.res.val)>>, EmptyMap,
                   path, WithElements(defn, b.node), b.log)

_build_branch(defn, constructor_class, path) ==
    IF ~Iterable(defn) THEN Raise("TypeError", path, defn, <<>>)
    ELSE ReturnBranch(BuildItems(Elements(defn), 1, path), defn,
                      constructor_class, path)

\* params[key] = <outcome b of _build_branch>, then StepClass(**params)
AssignChildren(b, step, StepClass, params, key, path, lg) ==
    IF b.res.kind = "err"
    THEN R(b.res, WithParams(step, SetItem(params, key, b.node)), lg \o b.log)
    ELSE Call(StepClass, <<>>, SetItem(params, key, b.res.val), path,
              WithParams(step, SetItem(params, key, b.res.val)), lg \o b.log)

\* the branch of _build_step that handles params[key] for a children key
BuildChildren(step, StepClass, params, key, path, lg) ==
    IF ~IsDict(params) THEN Raise("TypeError", path, step, lg)
    ELSE AssignChildren(
            _build_branch(params.entries[KeyIndex(params, key)].val,
                          NoneClass, path),
            step, StepClass, params, key, path, lg)

\* return StepClass(<outcome b of _build_branch(params, None)>)
ReturnPositional(b, step, StepClass, path, lg) ==
    IF b.res.kind = "err" THEN R(b.res, WithParams(step, b.node), lg \o b.log)
    ELSE Call(StepClass, <<b.res.val>>, EmptyMap, path,
              WithParams(step, b.node), lg \o b.log)

\* which children key _build_step takes: "transformer_list", "steps",
\* "" for neither, "TypeError" when the in test itself raises
ChildrenKey(params) ==
    CASE Contains(params, "transformer_list") = "TypeError" -> "TypeError"
      [] Contains(params, "transformer_list") = "yes" -> "transformer_list"
      [] Contains(params, "steps") = "yes" -> "steps"
      [] OTHER -> ""

\* the body of "if any(StepClass == obj for obj in [FeatureUnion, Pipeline])",
\* key being the children key found in params
ContainerStep(step, StepClass, params, key, path, lg) ==
    CASE key = "TypeError" -> Raise("TypeError", path, step, lg)
      [] key \in {"transformer_list", "steps"} ->
            BuildChildren(step, StepClass, params, key, path, lg)
      [] key = "" /\ IsTupleOrList(params) ->
            ReturnPositional(_build_branch(params, NoneClass, path),
                             step, StepClass, path, lg)
      [] OTHER -> Raise("ValueError", path, step, lg)

\* the dict branch of _build_step once the key count was accepted
DictStep(step, import_str, params, path, lg) ==
    IF IsContainer(locate(import_str))
    THEN ContainerStep(step, locate(import_str), params, ChildrenKey(params),
                       path, lg \o <<Ev("locate", path, import_str, Null)>>)
    ELSE Call(locate(import_str), <<>>, params, path, step,
              lg \o <<Ev("locate", path, import_str, Null)>>)

\* the statements of _build_step, lg holding the entry into it
\* (list(step.keys())[0] raises IndexError on a dict without keys)
StepBody(step, path, lg) ==
    IF IsDict(step) THEN
        IF KeyCountBad(step) THEN Raise("ValueError", path, step, lg)
        ELSE IF Len(step.entries) = 0 THEN Raise("IndexError", path, step, lg)
        ELSE DictStep(step, step.entries[1].key, step.entries[1].val, path, lg)
    ELSE IF IsStr(step) THEN
        Call(locate(step.s), <<>>, EmptyMap, path, step,
             lg \o <<Ev("locate", path, step.s, Null)>>)
    ELSE Raise("ValueError", path, step, lg)

_build_step(step, path) == StepBody(step, path, <<Ev("enter", path, "", step)>>)

pipeline_from_definition(pipe_definition) == _build_step(pipe_definition, <<>>)

----------------------------------------------------------------------------
(* The definitions a caller may pass *)

\* all sequences over S of length at most n
SeqsUpTo(S, n) == UNION {[1..k -> S] : k \in 0..n}

\* leaf parameters
X1 == Map(<<Entry("x", Num(1))>>)

\* nodes without children: bare names, parameterized leaves, malformed nodes,
\* containers without a children list
LeafNodes ==
    { Str("TypeA"), Str("Nope"), Num(1),
      EmptyMap,
      Map(<<Entry("TypeA", EmptyMap), Entry("TypeB", EmptyMap)>>),
      Map(<<Entry("TypeB", X1)>>),
      Map(<<Entry("TypeA", Null)>>),
      Map(<<Entry("Nope", X1)>>),
      Map(<<Entry("Pipeline", Null)>>),
      Map(<<Entry("FeatureUnion", X1)>>) }

\* composite nodes that occur as children
NestedNodes ==
    { Map(<<Entry("Pipeline",
                  Map(<<Entry("steps", List(<<Str("TypeA")>>))>>))>>),
      Map(<<Entry("FeatureUnion",
                  List(<<Str("TypeA"), Map(<<Entry("TypeB", X1)>>)>>))>>),
      Map(<<Entry("FeatureUnion",
                  Map(<<Entry("transformer_list",
                              List(<<Str("TypeA"), Str("Nope")>>))>>))>>) }

ChildNodes == LeafNodes \cup NestedNodes

DefinitionSequences == SeqsUpTo(ChildNodes, MaxLen)

\* the ways a container's children are written, for a Definition Sequence s
ContainerParams(s) ==
    { List(s),
      Map(<<Entry("steps", List(s))>>),
      Map(<<Entry("transformer_list", List(s))>>),
      Map(<<Entry("steps", List(s)), Entry("transformer_list", List(s))>>),
      Map(<<Entry("steps", List(s)), Entry("x", Num(1))>>) }

ContainerNodes ==
    { Map(<<Entry(c, p)>>) : c \in {Pipeline, FeatureUnion},
                             p \in UNION {ContainerParams(s) :
                                            s \in DefinitionSequences} }

\* further roots: other values where params belong, a name that does not
\* resolve given children
OtherNodes ==
    { Null, Str("TypeB"),
      Map(<<Entry("Pipeline", EmptyMap)>>),
      Map(<<Entry("Pipeline", Num(1))>>),
      Map(<<Entry("Pipeline", Str("ab"))>>),
      Map(<<Entry("FeatureUnion", Str("steps"))>>),
      Map(<<Entry("FeatureUnion", Null)>>),
      Map(<<Entry("TypeA", EmptyMap)>>),
      Map(<<Entry("TypeB", Null)>>),
      Map(<<Entry("TypeA", List(<<Str("TypeB")>>))>>),
      Map(<<Entry("Nope", EmptyMap)>>),
      Map(<<Entry("Nope", Null)>>),
      Map(<<Entry("Nope", Map(<<Entry("steps", List(<<Str("TypeA")>>))>>))>>),
      Map(<<Entry("Pipeline", Map(<<Entry("steps", Null)>>))>>),
      Map(<<Entry("Pipeline", Map(<<Entry("steps", Str("ab"))>>))>>),
      Map(<<Entry("Pipeline", Map(<<Entry("steps", X1)>>))>>) }

Definitions ==
    LeafNodes \cup OtherNodes \cup ContainerNodes
        \cup {List(s) : s \in DefinitionSequences}

\* the values of constructor_class a caller of _build_branch may pass;
\* UnionAlias is what the parameter holds when the argument is left out
ConstructorClasses == {UnionAlias, NoneClass, Pipeline, FeatureUnion}

----------------------------------------------------------------------------
(* The state machine: a caller holding one definition object calls the     *)
(* module's functions on it                                                *)

NoResult == [kind |-> "none", val |-> Null, exc |-> "", at |-> <<>>]

Init ==
    /\ definition \in Definitions
    /\ before = definition
    /\ result = NoResult
    /\ prevResult = NoResult
    /\ log = <<>>
    /\ op = "none"
    /\ prevOp = "none"
    /\ ctor = NoneClass
    /\ calls = 0

\* result = pipeline_from_definition(definition)
Translate ==
    /\ calls < MaxCalls
    /\ LET r == pipeline_from_definition(definition)
       IN /\ result' = r.res
          /\ definition' = r.node
          /\ log' = r.log
    /\ before' = definition
    /\ prevResult' = result
    /\ op' = "translate"
    /\ prevOp' = op
    /\ ctor' = NoneClass
    /\ calls' = calls + 1

\* result = _build_branch(definition, constructor_class), the argument left
\* out when constructor_class is the parameter's default
Branch ==
    /\ calls < MaxCalls
    /\ definition.kind = "list"
    /\ \E constructor_class \in ConstructorClasses :
          LET r == _build_branch(definition, constructor_class, <<>>)
          IN /\ result' = r.res
             /\ definition' = r.node
             /\ log' = r.log
             /\ ctor' = constructor_class
    /\ op' = "branch"
    /\ before' = definition
    /\ prevResult' = result
    /\ prevOp' = op
    /\ calls' = calls + 1

Next == Translate \/ Branch

Spec == Init /\ [][Next]_vars

----------------------------------------------------------------------------
(* Vocabulary of the properties *)

\* the error kinds of the specification, as the code's exceptions
MalformedDefinitionError == "ValueError"
ConstructorError == "TypeError"

IsPrefix(p, q) == Len(p) <= Len(q) /\ SubSeq(q, 1, Len(p)) = p

\* p is visited before q in a depth-first, left-to-right walk
PathLess(p, q) ==
    /\ p # q
    /\ \/ IsPrefix(p, q)
       \/ \E k \in 1..Len(p) :
             /\ k <= Len(q)
             /\ SubSeq(p, 1, k - 1) = SubSeq(q, 1, k - 1)
             /\ p[k] < q[k]

Entered == {i \in 1..Len(log) : log[i].ev = "enter"}
CallsAt(path) == {i \in 1..Len(log) : log[i].ev = "call" /\ log[i].path = path}
Raises == {i \in 1..Len(log) : log[i].ev = "raise"}

\* a node whose shape is outside the grammar
Malformed(n) == (n.kind = "map" /\ Len(n.entries) # 1) \/ n.kind \notin {"map", "str"}

OneKey(n) == n.kind = "map" /\ Len(n.entries) = 1
TypeName(n) == IF n.kind = "str" THEN n.s ELSE n.entries[1].key
Params(n) == n.entries[1].val

\* a list of Labeled Children
LabeledChildren(v) ==
    /\ v.kind = "list"
    /\ \A i \in 1..Len(v.items) :
          /\ v.items[i].kind = "tuple"
          /\ v.items[i].label = StepLabel(i - 1)
          /\ v.items[i].obj.kind = "obj"

----------------------------------------------------------------------------
(* C1 *)

\* C1: translating the same definition twice in a row gives the same outcome
\* both times: the second call returns an object graph equal to the first's
\* (and does not fail when the first succeeded)
C1_SameOutcomeTwice ==
    (op = "translate" /\ prevOp = "translate") => result = prevResult

(* C2 *)

\* C2: a node whose type name the registry does not resolve fails at that
\* node with an error kind of its own, the lookup result is never called and
\* no child of the node is entered
C2_UnresolvedNeverCalled ==
    \A i \in Entered :
        ((log[i].node.kind = "str" \/ OneKey(log[i].node))
            /\ TypeName(log[i].node) \notin Registry)
        => /\ result.kind = "err"
           /\ result.at = log[i].path
           /\ result.exc \notin {MalformedDefinitionError, ConstructorError}
           /\ CallsAt(log[i].path) = {}
           /\ \A j \in Entered : ~(IsPrefix(log[i].path, log[j].path)
                                    /\ log[j].path # log[i].path)

(* C3 *)

\* the Labeled Children of a Definition Sequence, each child resolved on its own
ExpectedChildren(seq) ==
    List([i \in 1..Len(seq) |->
            Tuple(StepLabel(i - 1), _build_step(seq[i], <<i - 1>>).res.val)])

AllResolve(seq) ==
    \A i \in 1..Len(seq) : _build_step(seq[i], <<i - 1>>).res.kind = "ok"

\* C3: for a Definition Sequence whose elements all resolve, _build_branch
\* without a constructor (left out, or None) returns the n Labeled Children
\* step_0 .. step_{n-1} in input order; with a constructor it returns the
\* result of calling it once on that list
C3_BranchLabelsInOrder ==
    (op = "branch" /\ AllResolve(before.items))
    => IF ctor \in {UnionAlias, NoneClass}
       THEN result = Ok(ExpectedChildren(before.items))
       ELSE /\ result = Ok(Obj(ctor, <<ExpectedChildren(before.items)>>, EmptyMap))
            /\ Cardinality(CallsAt(<<>>)) = 1

(* C4 *)

\* C4: a container constructor is called with every children parameter
\* ('steps', 'transformer_list') holding a list of Labeled Children, never
\* an unresolved Definition Sequence, also when both are given
C4_ChildrenAlwaysResolved ==
    \A i \in 1..Len(log) :
        (log[i].ev = "call" /\ IsContainer(log[i].what))
        => \A k \in 1..Len(log[i].node.kw.entries) :
              log[i].node.kw.entries[k].key \in {"steps", "transformer_list"}
              => LabeledChildren(log[i].node.kw.entries[k].val)

(* C5 *)

\* a value that supplies no children list: a dict without 'steps' and
\* 'transformer_list', null, a number, a string
NoChildrenList(v) ==
    \/ v.kind \in {"null", "num", "str"}
    \/ /\ v.kind = "map"
       /\ \A k \in 1..Len(v.entries) :
             v.entries[k].key \notin {"steps", "transformer_list"}

\* C5: a container named without a recognizable children list fails at that
\* node with MalformedDefinitionError and the container is never called
C5_ContainerWithoutChildren ==
    \A i \in Entered :
        (OneKey(log[i].node)
            /\ TypeName(log[i].node) \in {Pipeline, FeatureUnion}
            /\ NoChildrenList(Params(log[i].node)))
        => /\ result.kind = "err"
           /\ result.at = log[i].path
           /\ result.exc = MalformedDefinitionError
           /\ CallsAt(log[i].path) = {}

(* C6 *)

\* a bare name or parameterized step of a leaf type of the registry
ResolvableLeaf(n) ==
    \/ n.kind = "str" /\ n.s \in LeafClasses
    \/ OneKey(n) /\ TypeName(n) \in LeafClasses /\ Params(n).kind = "map"

\* C6: pipeline_from_definition returns an object for a root Definition Node
\* and for a top-level Definition Sequence of resolvable nodes alike
C6_BothRootFormsAccepted ==
    (op = "translate"
        /\ \/ ResolvableLeaf(before)
           \/ /\ before.kind = "list"
              /\ Len(before.items) > 0
              /\ \A i \in 1..Len(before.items) : ResolvableLeaf(before.items[i]))
    => result.kind = "ok" /\ result.val.kind = "obj"

(* C7 *)

\* C7: a node of malformed shape (a dict whose number of keys is not one, or
\* a value that is neither a string nor a dict) is rejected at that node with
\* MalformedDefinitionError, and nothing else is done for the node: no name
\* is located and no lookup result is called
C7_MalformedRejectedFirst ==
    \A i \in Entered :
        Malformed(log[i].node)
        => /\ result = Raised(MalformedDefinitionError, log[i].path)
           /\ i + 1 = Len(log)
           /\ log[i + 1].ev = "raise"
           /\ \A j \in 1..Len(log) :
                 log[j].path = log[i].path => j \in {i, i + 1}

\* a dict without keys met as a child is rejected there
C7_Witness ==
    \E i \in Entered :
        /\ log[i].node = EmptyMap
        /\ log[i].path # <<>>
        /\ op = "translate"
        /\ result = Raised(MalformedDefinitionError, log[i].path)

(* C8 *)

\* C8: a one-key dict naming a leaf type returns that constructor's result
\* for the params expanded as named arguments, an absent (null) value
\* counting as the empty dict, so that it equals the Bare Name form
C8_LeafParamsDefaultEmpty ==
    (op = "translate" /\ OneKey(before) /\ TypeName(before) \in LeafClasses
        /\ Params(before).kind \in {"map", "null"})
    => /\ result = Ok(Obj(TypeName(before), <<>>,
                          IF Params(before) = Null THEN EmptyMap
                          ELSE Params(before)))
       /\ Cardinality(CallsAt(<<>>)) = 1
       /\ Params(before) = Null
          => result = pipeline_from_definition(Str(TypeName(before))).res

(* C9 *)

\* C9: nodes are entered in depth-first, left-to-right order and a container
\* is called after everything below it; when the call fails, the raise is
\* the last thing done, it is the only one, nothing is returned, and every
\* node entered before it either encloses the failing node or was built
C9_FirstErrorAborts ==
    /\ \A i, j \in Entered : i < j => PathLess(log[i].path, log[j].path)
    /\ \A j \in 1..Len(log) :
          log[j].ev = "call"
          => \A i \in 1..Len(log) :
                (IsPrefix(log[j].path, log[i].path)
                    /\ log[i].path # log[j].path) => i < j
    /\ result.kind = "err"
       => /\ Raises = {Len(log)}
          /\ log[Len(log)].path = result.at
          /\ log[Len(log)].what = result.exc
          /\ result.val = Null
          /\ \A i \in Entered :
                \/ IsPrefix(log[i].path, result.at)
                \/ \E j \in CallsAt(log[i].path) : j > i
    /\ result.kind = "ok" => Raises = {}

\* a translation that fails two levels down, after an earlier sibling of the
\* failing node and an earlier sibling of its container were built
C9_Witness ==
    /\ op = "translate"
    /\ result.kind = "err"
    /\ Len(result.at) = 2
    /\ result.at[1] > 0
    /\ result.at[2] > 0
    /\ CallsAt(<<0>>) # {}
    /\ CallsAt(<<result.at[1], 0>>) # {}

(* C10 *)

\* C10: a translation leaves the caller's definition as it was
C10_DefinitionUnchanged ==
    op = "translate" => definition = before

====
